---------------------------- MODULE Spec2Model ----------------------------
(***************************************************************************)
(* Theme-park ticketing backend (Express + Mongoose): accounts,            *)
(* facilities, tickets and purchases.  Every route handler is a sequence   *)
(* of awaited store operations; each awaited store operation is one atomic *)
(* step, and the handler's local code up to its next await (or response)   *)
(* belongs to the step of the await it follows.  Several requests are in   *)
(* flight at once (one per slot), so their steps interleave.               *)
(***************************************************************************)
EXTENDS Integers, Sequences, FiniteSets, TLC

(* ------------------------------ bounds -------------------------------- *)
MaxSalt == 2
MaxBoot == 2
MaxFaults == 1
MaxRequests == 2
MaxNewFacilities == 1
MaxNewTickets == 1

(* ----------------------------- constants ------------------------------ *)
AdminEmail == "admin@parmar.com"
AdminPassword == "admin123"
AdminName == "Admin User"

Requests == 1..MaxRequests
Salts == 1..MaxSalt
Emails == {AdminEmail, "u@x.com"}
Passwords == {AdminPassword, "pw"}
Names == {"n"}

VARIABLES users, facilities, tickets, purchases, ids, req, res, boot, faults

shop == <<facilities, tickets, purchases, ids>>
store == <<users, shop>>
vars == <<store, req, res, boot, faults>>

Idle == [op |-> "none", pc |-> "idle"]
NoRes == [status |-> 0]

(* --------------------------- credential hasher ------------------------ *)
\* bcrypt.hash(password, 10): a digest of the password under a fresh salt
Hash(password, salt) == [salt |-> salt, digest |-> <<salt, password>>]

\* bcrypt.compare(password, hash): re-hash under the stored salt
Compare(password, hash) == Hash(password, hash.salt) = hash

(* ------------------------------ accounts ------------------------------ *)
UsersByEmail(email) == {id \in DOMAIN users : users[id].email = email}

\* User.findOne({ email }): the first matching document's id, 0 for null
FindOneUser(email) ==
  IF UsersByEmail(email) = {} THEN 0
  ELSE CHOOSE id \in UsersByEmail(email) : \A j \in UsersByEmail(email) : id <= j

UniqueEmailOkNoIndex(email) == TRUE

\* the unique index on email: an insert with a present email is E11000
UniqueEmailOk(email) == UsersByEmail(email) = {}

NextUserId == Cardinality(DOMAIN users) + 1

NewUser(name, email, hash, role) ==
  [name |-> name, email |-> email, password |-> hash, role |-> role,
   createdAt |-> NextUserId]

SaveUserUpsert(doc) ==
  IF UniqueEmailOk(doc.email)
  THEN [ok |-> TRUE, id |-> NextUserId, users |-> users @@ (NextUserId :> doc)]
  ELSE [ok |-> TRUE, id |-> FindOneUser(doc.email),
        users |-> [users EXCEPT ![FindOneUser(doc.email)].password = doc.password]]

\* user.save() of a new document: an insert, rejected by the unique index
SaveUser(doc) ==
  IF UniqueEmailOk(doc.email)
  THEN [ok |-> TRUE, id |-> NextUserId, users |-> users @@ (NextUserId :> doc)]
  ELSE [ok |-> FALSE, id |-> 0, users |-> users]

UserRoleAlwaysAdmin(email) == "admin"

\* const userRole = email === 'admin@parmar.com' ? 'admin' : 'user'
UserRole(email) == IF email = AdminEmail THEN "admin" ELSE "user"

\* the user object of the signup and login responses
Summary(id) ==
  [id |-> id, name |-> users[id].name, email |-> users[id].email,
   role |-> users[id].role]

SelectAll(id) ==
  [id |-> id, name |-> users[id].name, email |-> users[id].email,
   password |-> users[id].password, role |-> users[id].role,
   createdAt |-> users[id].createdAt]

\* .select('-password'): every stored field but password
SelectNoPassword(id) ==
  [id |-> id, name |-> users[id].name, email |-> users[id].email,
   role |-> users[id].role, createdAt |-> users[id].createdAt]

\* .sort({ createdAt: -1 }) over the documents of collection c with ids in s
RECURSIVE SortDesc(_, _)
SortDesc(s, c) ==
  IF s = {} THEN <<>>
  ELSE LET newest == CHOOSE i \in s :
                       \A j \in s : c[i].createdAt >= c[j].createdAt
       IN <<newest>> \o SortDesc(s \ {newest}, c)

\* User.find().select('-password').sort({ createdAt: -1 })
ListedUsers ==
  LET sorted == SortDesc(DOMAIN users, users)
  IN [i \in 1..Len(sorted) |-> SelectNoPassword(sorted[i])]

ServerError == [status |-> 500, message |-> "Server error"]
UserExists == [status |-> 400, message |-> "User already exists"]

LoginNoUserDistinct == [status |-> 404, message |-> "User not found"]

\* login, !user
LoginNoUser == [status |-> 400, message |-> "Invalid email or password"]

\* login, !isMatch
LoginBadPassword == [status |-> 400, message |-> "Invalid email or password"]

\* request r has not arrived yet; requests are numbered in order of arrival
Free(r) == req[r].pc = "idle" /\ (IF r = 1 THEN TRUE ELSE req[r - 1].pc # "idle")

\* a store operation rejects (connection loss, timeout)
CanFault == faults < MaxFaults

(* POST /api/signup, up to the first await: User.findOne({ email }) *)
SignupFindOne(r) ==
  /\ Free(r)
  /\ \E name \in Names, email \in Emails, password \in Passwords :
       LET rq == [op |-> "signup", pc |-> "save", name |-> name,
                  email |-> email, password |-> password, err |-> "none"]
       IN \/ /\ FindOneUser(email) # 0
             /\ req' = [req EXCEPT ![r] = [rq EXCEPT !.pc = "done", !.err = "exists"]]
             /\ res' = [res EXCEPT ![r] = UserExists]
             /\ UNCHANGED faults
          \/ /\ FindOneUser(email) = 0
             /\ req' = [req EXCEPT ![r] = rq]
             /\ res' = [res EXCEPT ![r] = NoRes]
             /\ UNCHANGED faults
          \/ /\ CanFault
             /\ faults' = faults + 1
             /\ req' = [req EXCEPT ![r] = [rq EXCEPT !.pc = "done", !.err = "fault"]]
             /\ res' = [res EXCEPT ![r] = ServerError]
  /\ UNCHANGED <<store, boot>>

(* POST /api/signup, after findOne: bcrypt.hash, new User, user.save() *)
SignupSave(r) ==
  /\ req[r].op = "signup" /\ req[r].pc = "save"
  /\ \/ \E salt \in Salts :
          LET user == NewUser(req[r].name, req[r].email,
                              Hash(req[r].password, salt), UserRole(req[r].email))
              saved == SaveUser(user)
          IN /\ users' = saved.users
             /\ IF saved.ok
                THEN /\ req' = [req EXCEPT ![r].pc = "done"]
                     /\ res' = [res EXCEPT ![r] =
                                  [status |-> 201,
                                   message |-> "User created successfully",
                                   user |-> [id |-> saved.id, name |-> user.name,
                                             email |-> user.email,
                                             role |-> user.role]]]
                ELSE /\ req' = [req EXCEPT ![r].pc = "done", ![r].err = "E11000"]
                     /\ res' = [res EXCEPT ![r] = ServerError]
             /\ UNCHANGED faults
     \/ /\ CanFault
        /\ faults' = faults + 1
        /\ req' = [req EXCEPT ![r].pc = "done", ![r].err = "fault"]
        /\ res' = [res EXCEPT ![r] = ServerError]
        /\ UNCHANGED users
  /\ UNCHANGED <<shop, boot>>

(* POST /api/login: User.findOne({ email }), bcrypt.compare *)
Login(r) ==
  /\ Free(r)
  /\ \E email \in Emails, password \in Passwords :
       LET user == FindOneUser(email)
           rq == [op |-> "login", pc |-> "done", email |-> email,
                  password |-> password, err |-> "none"]
       IN \/ /\ user = 0
             /\ req' = [req EXCEPT ![r] = [rq EXCEPT !.err = "nouser"]]
             /\ res' = [res EXCEPT ![r] = LoginNoUser]
             /\ UNCHANGED faults
          \/ /\ user # 0 /\ ~Compare(password, users[user].password)
             /\ req' = [req EXCEPT ![r] = [rq EXCEPT !.err = "badpassword"]]
             /\ res' = [res EXCEPT ![r] = LoginBadPassword]
             /\ UNCHANGED faults
          \/ /\ user # 0 /\ Compare(password, users[user].password)
             /\ req' = [req EXCEPT ![r] = rq]
             /\ res' = [res EXCEPT ![r] =
                          [status |-> 200, message |-> "Login successful",
                           user |-> Summary(user)]]
             /\ UNCHANGED faults
          \/ /\ CanFault
             /\ faults' = faults + 1
             /\ req' = [req EXCEPT ![r] = [rq EXCEPT !.err = "fault"]]
             /\ res' = [res EXCEPT ![r] = ServerError]
  /\ UNCHANGED <<store, boot>>

(* GET /api/users *)
ListUsers(r) ==
  /\ Free(r)
  /\ \/ /\ req' = [req EXCEPT ![r] = [op |-> "users", pc |-> "done", err |-> "none"]]
        /\ res' = [res EXCEPT ![r] = [status |-> 200, users |-> ListedUsers]]
        /\ UNCHANGED faults
     \/ /\ CanFault
        /\ faults' = faults + 1
        /\ req' = [req EXCEPT ![r] = [op |-> "users", pc |-> "done", err |-> "fault"]]
        /\ res' = [res EXCEPT ![r] = [status |-> 500, message |-> "fault"]]
  /\ UNCHANGED <<store, boot>>

\* const adminExists = await User.findOne({ email: 'admin@parmar.com' })
AdminExists == FindOneUser(AdminEmail)

(* createAdminUser, up to the first await *)
BootFindOne ==
  /\ boot.pc = "start"
  /\ \/ /\ AdminExists # 0
        /\ boot' = [boot EXCEPT !.pc = "done", !.out = "exists"]
        /\ UNCHANGED faults
     \/ /\ AdminExists = 0
        /\ boot' = [boot EXCEPT !.pc = "save"]
        /\ UNCHANGED faults
     \/ /\ CanFault
        /\ faults' = faults + 1
        /\ boot' = [boot EXCEPT !.pc = "done", !.out = "error"]
  /\ UNCHANGED <<store, req, res>>

(* createAdminUser, if (!adminExists): bcrypt.hash, new User, save *)
BootSave ==
  /\ boot.pc = "save"
  /\ \/ \E salt \in Salts :
          LET saved == SaveUser(NewUser(AdminName, AdminEmail,
                                        Hash(AdminPassword, salt), "admin"))
          IN /\ users' = saved.users
             /\ boot' = [boot EXCEPT !.pc = "done",
                                     !.out = IF saved.ok THEN "created" ELSE "error"]
             /\ UNCHANGED faults
     \/ /\ CanFault
        /\ faults' = faults + 1
        /\ boot' = [boot EXCEPT !.pc = "done", !.out = "error"]
        /\ UNCHANGED users
  /\ UNCHANGED <<shop, req, res>>

(* the process starts again: app.listen runs initializeData once more *)
BootAgain ==
  /\ boot.pc = "done" /\ boot.runs < MaxBoot
  /\ boot' = [pc |-> "start", runs |-> boot.runs + 1, out |-> "none"]
  /\ UNCHANGED <<store, req, res, faults>>

(* ------------------------------ facilities ---------------------------- *)
\* createSampleFacilities: sampleFacilities
SampleFacilities ==
  <<[name |-> "Roller Coaster", category |-> "ride"],
    [name |-> "Water Slide", category |-> "water"]>>

\* createSampleTickets: the two tickets pushed for each facility
SampleTickets ==
  <<[type |-> "Adult", price |-> 100, available |-> 150, sold |-> 35],
    [type |-> "Child", price |-> 70, available |-> 200, sold |-> 28]>>

NSampleTickets == Len(SampleFacilities) * Len(SampleTickets)
FacilityIds == 1..(Len(SampleFacilities) + MaxNewFacilities)
TicketIds == 1..(NSampleTickets + MaxNewTickets)
\* the ticket ids requests name: a sample ticket and the ids still to be assigned
TicketTargets == {1} \cup ((NSampleTickets + 1)..(NSampleTickets + MaxNewTickets))
FacilityNames == {"Coaster", ""}
\* request inputs: quantities below, at and above a new ticket's stock; one
\* price; one total, which is price * quantity for quantity 1 only
Quantities == {-1, 0, 1, 2}
Available == {1}
Prices == {50}
Totals == {50}

\* PUT request bodies: vals holds the fields supplied with a value, nulls the
\* fields supplied as null
UpdateBodies ==
  {[vals |-> [price |-> 60], nulls |-> {"available"}],
   [vals |-> [available |-> 150, sold |-> 0], nulls |-> {}]}
    \cup {[vals |-> [facilityId |-> f], nulls |-> {}] : f \in FacilityIds}

FailCreated(status) == [status |-> 201, message |-> "error"]

\* catch (error): res.status(status).json({ message: error.message })
Fail(status) == [status |-> status, message |-> "error"]
NotFound(what) == [status |-> 404, message |-> what]

\* required: true on a String path rejects undefined and the empty string
Required(v) == v # ""

\* Facility.find().sort({ createdAt: -1 })
ListedFacilities ==
  LET sorted == SortDesc(DOMAIN facilities, facilities)
  IN [i \in 1..Len(sorted) |->
        [id |-> sorted[i], name |-> facilities[sorted[i]].name]]

(* GET /api/facilities *)
ListFacilities(r) ==
  /\ Free(r)
  /\ \/ /\ req' = [req EXCEPT ![r] = [op |-> "facilities", pc |-> "done", err |-> "none"]]
        /\ res' = [res EXCEPT ![r] = [status |-> 200, list |-> ListedFacilities]]
        /\ UNCHANGED faults
     \/ /\ CanFault
        /\ faults' = faults + 1
        /\ req' = [req EXCEPT ![r] = [op |-> "facilities", pc |-> "done", err |-> "fault"]]
        /\ res' = [res EXCEPT ![r] = Fail(500)]
  /\ UNCHANGED <<store, boot>>

(* POST /api/facilities: new Facility(...), facility.save() *)
CreateFacility(r) ==
  /\ Free(r)
  /\ \E name \in FacilityNames :
       LET rq == [op |-> "createFacility", pc |-> "done", name |-> name,
                  id |-> 0, err |-> "none"]
           id == ids.facility + 1
       IN \/ /\ Required(name) /\ id \in FacilityIds
             /\ facilities' = facilities @@ (id :>
                  [name |-> name, description |-> "d", image |-> "",
                   category |-> "ride", createdAt |-> id])
             /\ ids' = [ids EXCEPT !.facility = id]
             /\ req' = [req EXCEPT ![r] = [rq EXCEPT !.id = id]]
             /\ res' = [res EXCEPT ![r] = [status |-> 201, id |-> id, name |-> name]]
             /\ UNCHANGED faults
          \/ /\ ~Required(name)
             /\ req' = [req EXCEPT ![r] = [rq EXCEPT !.err = "validation"]]
             /\ res' = [res EXCEPT ![r] = Fail(400)]
             /\ UNCHANGED <<facilities, ids, faults>>
          \/ /\ CanFault
             /\ faults' = faults + 1
             /\ req' = [req EXCEPT ![r] = [rq EXCEPT !.err = "fault"]]
             /\ res' = [res EXCEPT ![r] = Fail(400)]
             /\ UNCHANGED <<facilities, ids>>
  /\ UNCHANGED <<users, tickets, purchases, boot>>

(* DELETE /api/facilities/:id, up to Facility.findById(req.params.id) *)
DeleteFacilityFind(r) ==
  /\ Free(r)
  /\ \E id \in FacilityIds :
       LET rq == [op |-> "deleteFacility", pc |-> "deleteMany", id |-> id,
                  err |-> "none"]
       IN \/ /\ id \notin DOMAIN facilities
             /\ req' = [req EXCEPT ![r] = [rq EXCEPT !.pc = "done", !.err = "notfound"]]
             /\ res' = [res EXCEPT ![r] = NotFound("Facility not found")]
             /\ UNCHANGED faults
          \/ /\ id \in DOMAIN facilities
             /\ req' = [req EXCEPT ![r] = rq]
             /\ res' = [res EXCEPT ![r] = NoRes]
             /\ UNCHANGED faults
          \/ /\ CanFault
             /\ faults' = faults + 1
             /\ req' = [req EXCEPT ![r] = [rq EXCEPT !.pc = "done", !.err = "fault"]]
             /\ res' = [res EXCEPT ![r] = Fail(500)]
  /\ UNCHANGED <<store, boot>>

\* the tickets Ticket.deleteMany({ facilityId: id }) leaves
Cascade(id) == {t \in DOMAIN tickets : tickets[t].facilityId # id}

(* DELETE /api/facilities/:id: Ticket.deleteMany({ facilityId }) *)
DeleteFacilityTickets(r) ==
  /\ req[r].op = "deleteFacility" /\ req[r].pc = "deleteMany"
  /\ \/ /\ tickets' = [t \in Cascade(req[r].id) |-> tickets[t]]
        /\ req' = [req EXCEPT ![r].pc = "delete"]
        /\ UNCHANGED <<res, faults>>
     \/ /\ CanFault
        /\ faults' = faults + 1
        /\ req' = [req EXCEPT ![r].pc = "done", ![r].err = "fault"]
        /\ res' = [res EXCEPT ![r] = Fail(500)]
        /\ UNCHANGED tickets
  /\ UNCHANGED <<users, facilities, purchases, ids, boot>>

(* DELETE /api/facilities/:id: Facility.findByIdAndDelete(id) *)
DeleteFacilityRemove(r) ==
  /\ req[r].op = "deleteFacility" /\ req[r].pc = "delete"
  /\ \/ /\ facilities' = [f \in DOMAIN facilities \ {req[r].id} |-> facilities[f]]
        /\ req' = [req EXCEPT ![r].pc = "done"]
        /\ res' = [res EXCEPT ![r] =
                     [status |-> 200, message |-> "Facility deleted successfully"]]
        /\ UNCHANGED faults
     \/ /\ CanFault
        /\ faults' = faults + 1
        /\ req' = [req EXCEPT ![r].pc = "done", ![r].err = "fault"]
        /\ res' = [res EXCEPT ![r] = Fail(500)]
        /\ UNCHANGED facilities
  /\ UNCHANGED <<users, tickets, purchases, ids, boot>>

(* ------------------------------- tickets ------------------------------ *)
\* Ticket.findById(id).populate('facilityId', ...): the ticket and its facility
\* are both found (a missing one is a TypeError in the handler)
Populated(t) == t \in DOMAIN tickets /\ tickets[t].facilityId \in DOMAIN facilities

\* the formatted ticket of the responses
Formatted(t) ==
  [id |-> t, facilityId |-> tickets[t].facilityId,
   facilityName |-> facilities[tickets[t].facilityId].name,
   type |-> tickets[t].type, price |-> tickets[t].price,
   available |-> tickets[t].available, sold |-> tickets[t].sold]

FacilityResolvesAlways(id) == TRUE

\* const facility = await Facility.findById(req.body.facilityId); if (!facility)
FacilityResolves(id) == id \in DOMAIN facilities

(* POST /api/tickets, up to Facility.findById(req.body.facilityId) *)
CreateTicketFind(r) ==
  /\ Free(r)
  /\ \E facilityId \in FacilityIds, available \in Available, price \in Prices :
       LET rq == [op |-> "createTicket", pc |-> "save", facilityId |-> facilityId,
                  available |-> available, price |-> price, id |-> 0,
                  err |-> "none"]
       IN \/ /\ ~FacilityResolves(facilityId)
             /\ req' = [req EXCEPT ![r] = [rq EXCEPT !.pc = "done", !.err = "notfound"]]
             /\ res' = [res EXCEPT ![r] = NotFound("Facility not found")]
             /\ UNCHANGED faults
          \/ /\ FacilityResolves(facilityId)
             /\ req' = [req EXCEPT ![r] = rq]
             /\ res' = [res EXCEPT ![r] = NoRes]
             /\ UNCHANGED faults
          \/ /\ CanFault
             /\ faults' = faults + 1
             /\ req' = [req EXCEPT ![r] = [rq EXCEPT !.pc = "done", !.err = "fault"]]
             /\ res' = [res EXCEPT ![r] = Fail(400)]
  /\ UNCHANGED <<store, boot>>

(* POST /api/tickets: new Ticket(...), ticket.save() *)
CreateTicketSave(r) ==
  /\ req[r].op = "createTicket" /\ req[r].pc = "save"
  /\ LET id == ids.ticket + 1
     IN \/ /\ id \in TicketIds
           /\ tickets' = tickets @@ (id :>
                [facilityId |-> req[r].facilityId, type |-> "Adult",
                 price |-> req[r].price, description |-> "",
                 available |-> req[r].available, sold |-> 0, createdAt |-> id])
           /\ ids' = [ids EXCEPT !.ticket = id]
           /\ req' = [req EXCEPT ![r].pc = "populate", ![r].id = id]
           /\ UNCHANGED <<res, faults>>
        \/ /\ CanFault
           /\ faults' = faults + 1
           /\ req' = [req EXCEPT ![r].pc = "done", ![r].err = "fault"]
           /\ res' = [res EXCEPT ![r] = Fail(400)]
           /\ UNCHANGED <<tickets, ids>>
  /\ UNCHANGED <<users, facilities, purchases, boot>>

(* POST /api/tickets: Ticket.findById(newTicket._id).populate, res 201 *)
CreateTicketPopulate(r) ==
  /\ req[r].op = "createTicket" /\ req[r].pc = "populate"
  /\ \/ /\ Populated(req[r].id)
        /\ req' = [req EXCEPT ![r].pc = "done"]
        /\ res' = [res EXCEPT ![r] = [status |-> 201, ticket |-> Formatted(req[r].id)]]
        /\ UNCHANGED faults
     \/ /\ ~Populated(req[r].id)
        /\ req' = [req EXCEPT ![r].pc = "done", ![r].err = "TypeError"]
        /\ res' = [res EXCEPT ![r] = Fail(400)]
        /\ UNCHANGED faults
     \/ /\ CanFault
        /\ faults' = faults + 1
        /\ req' = [req EXCEPT ![r].pc = "done", ![r].err = "fault"]
        /\ res' = [res EXCEPT ![r] = Fail(400)]
  /\ UNCHANGED <<store, boot>>

(* PUT /api/tickets/:id, up to Ticket.findById(req.params.id) *)
UpdateTicketFind(r) ==
  /\ Free(r)
  /\ \E id \in TicketTargets, body \in UpdateBodies :
       LET rq == [op |-> "updateTicket", pc |-> "save", id |-> id, body |-> body,
                  err |-> "none"]
       IN \/ /\ id \notin DOMAIN tickets
             /\ req' = [req EXCEPT ![r] = [rq EXCEPT !.pc = "done", !.err = "notfound"]]
             /\ res' = [res EXCEPT ![r] = NotFound("Ticket not found")]
             /\ UNCHANGED faults
          \/ /\ id \in DOMAIN tickets
             /\ req' = [req EXCEPT ![r] =
                          [op |-> "updateTicket", pc |-> "save", id |-> id,
                           body |-> body, err |-> "none", doc |-> tickets[id]]]
             /\ res' = [res EXCEPT ![r] = NoRes]
             /\ UNCHANGED faults
          \/ /\ CanFault
             /\ faults' = faults + 1
             /\ req' = [req EXCEPT ![r] = [rq EXCEPT !.pc = "done", !.err = "fault"]]
             /\ res' = [res EXCEPT ![r] = Fail(400)]
  /\ UNCHANGED <<store, boot>>

\* if (req.body.f != null) ticket.f = req.body.f: the paths the assignments
\* leave modified (an assignment of the value already held modifies nothing)
Modified(doc, body) == {f \in DOMAIN body.vals : body.vals[f] # doc[f]}

SetWholeDocument(stored, doc, body) ==
  [f \in DOMAIN stored |->
     IF f \in DOMAIN body.vals THEN body.vals[f] ELSE doc[f]]

\* ticket.save() of a loaded document: $set of its modified paths
SetModified(stored, doc, body) ==
  [f \in DOMAIN stored |->
     IF f \in Modified(doc, body) THEN body.vals[f] ELSE stored[f]]

(* PUT /api/tickets/:id: the assignments and ticket.save() *)
UpdateTicketSave(r) ==
  /\ req[r].op = "updateTicket" /\ req[r].pc = "save"
  /\ LET id == req[r].id
     IN \/ /\ id \in DOMAIN tickets
           /\ tickets' = [tickets EXCEPT
                            ![id] = SetModified(tickets[id], req[r].doc, req[r].body)]
           /\ req' = [req EXCEPT ![r].pc = "populate"]
           /\ UNCHANGED <<res, faults>>
        \/ /\ id \notin DOMAIN tickets
           /\ \/ /\ Modified(req[r].doc, req[r].body) # {}
                 /\ req' = [req EXCEPT ![r].pc = "done", ![r].err = "DocumentNotFound"]
                 /\ res' = [res EXCEPT ![r] = Fail(400)]
              \/ /\ req' = [req EXCEPT ![r].pc = "populate"]
                 /\ UNCHANGED res
           /\ UNCHANGED <<tickets, faults>>
        \/ /\ CanFault
           /\ faults' = faults + 1
           /\ req' = [req EXCEPT ![r].pc = "done", ![r].err = "fault"]
           /\ res' = [res EXCEPT ![r] = Fail(400)]
           /\ UNCHANGED tickets
  /\ UNCHANGED <<users, facilities, purchases, ids, boot>>

(* PUT /api/tickets/:id: Ticket.findById(updatedTicket._id).populate, res *)
UpdateTicketPopulate(r) ==
  /\ req[r].op = "updateTicket" /\ req[r].pc = "populate"
  /\ \/ /\ Populated(req[r].id)
        /\ req' = [req EXCEPT ![r].pc = "done"]
        /\ res' = [res EXCEPT ![r] = [status |-> 200, ticket |-> Formatted(req[r].id)]]
        /\ UNCHANGED faults
     \/ /\ ~Populated(req[r].id)
        /\ req' = [req EXCEPT ![r].pc = "done", ![r].err = "TypeError"]
        /\ res' = [res EXCEPT ![r] = Fail(400)]
        /\ UNCHANGED faults
     \/ /\ CanFault
        /\ faults' = faults + 1
        /\ req' = [req EXCEPT ![r].pc = "done", ![r].err = "fault"]
        /\ res' = [res EXCEPT ![r] = Fail(400)]
  /\ UNCHANGED <<store, boot>>

\* Ticket.find().populate(...).sort({ createdAt: -1 }), tickets.map
ListedTickets ==
  LET sorted == SortDesc(DOMAIN tickets, tickets)
  IN [i \in 1..Len(sorted) |-> Formatted(sorted[i])]

(* GET /api/tickets *)
ListTickets(r) ==
  /\ Free(r)
  /\ \/ /\ \A t \in DOMAIN tickets : Populated(t)
        /\ req' = [req EXCEPT ![r] = [op |-> "tickets", pc |-> "done", err |-> "none"]]
        /\ res' = [res EXCEPT ![r] =
                     [status |-> 200, list |-> ListedTickets]]
        /\ UNCHANGED faults
     \/ /\ \E t \in DOMAIN tickets : ~Populated(t)
        /\ req' = [req EXCEPT ![r] = [op |-> "tickets", pc |-> "done", err |-> "TypeError"]]
        /\ res' = [res EXCEPT ![r] = Fail(500)]
        /\ UNCHANGED faults
     \/ /\ CanFault
        /\ faults' = faults + 1
        /\ req' = [req EXCEPT ![r] = [op |-> "tickets", pc |-> "done", err |-> "fault"]]
        /\ res' = [res EXCEPT ![r] = Fail(500)]
  /\ UNCHANGED <<store, boot>>

(* DELETE /api/tickets/:id, up to Ticket.findById(req.params.id) *)
DeleteTicketFind(r) ==
  /\ Free(r)
  /\ \E id \in TicketTargets :
       LET rq == [op |-> "deleteTicket", pc |-> "delete", id |-> id, err |-> "none"]
       IN \/ /\ id \notin DOMAIN tickets
             /\ req' = [req EXCEPT ![r] = [rq EXCEPT !.pc = "done", !.err = "notfound"]]
             /\ res' = [res EXCEPT ![r] = NotFound("Ticket not found")]
             /\ UNCHANGED faults
          \/ /\ id \in DOMAIN tickets
             /\ req' = [req EXCEPT ![r] = rq]
             /\ res' = [res EXCEPT ![r] = NoRes]
             /\ UNCHANGED faults
          \/ /\ CanFault
             /\ faults' = faults + 1
             /\ req' = [req EXCEPT ![r] = [rq EXCEPT !.pc = "done", !.err = "fault"]]
             /\ res' = [res EXCEPT ![r] = Fail(500)]
  /\ UNCHANGED <<store, boot>>

WithoutFacilityOf(id) ==
  {t \in DOMAIN tickets :
     id \in DOMAIN tickets => tickets[t].facilityId # tickets[id].facilityId}

\* the tickets Ticket.findByIdAndDelete(id) leaves
Without(id) == DOMAIN tickets \ {id}

(* DELETE /api/tickets/:id: Ticket.findByIdAndDelete(id) *)
DeleteTicketRemove(r) ==
  /\ req[r].op = "deleteTicket" /\ req[r].pc = "delete"
  /\ \/ /\ tickets' = [t \in Without(req[r].id) |-> tickets[t]]
        /\ req' = [req EXCEPT ![r].pc = "done"]
        /\ res' = [res EXCEPT ![r] =
                     [status |-> 200, message |-> "Ticket deleted successfully"]]
        /\ UNCHANGED faults
     \/ /\ CanFault
        /\ faults' = faults + 1
        /\ req' = [req EXCEPT ![r].pc = "done", ![r].err = "fault"]
        /\ res' = [res EXCEPT ![r] = Fail(500)]
        /\ UNCHANGED tickets
  /\ UNCHANGED <<users, facilities, purchases, ids, boot>>

(* ------------------------------ purchases ----------------------------- *)
NextPurchaseId == Cardinality(DOMAIN purchases) + 1

IncTicketSet(ticket, quantity) ==
  [ticket EXCEPT !.sold = quantity, !.available = -quantity]

IncTicketSoldOnly(ticket, quantity) ==
  [ticket EXCEPT !.sold = @ + quantity]

\* $inc: { sold: quantity, available: -quantity } applied by the store
IncTicket(ticket, quantity) ==
  [ticket EXCEPT !.sold = @ + quantity, !.available = @ - quantity]

\* Purchase.find({ userId }).sort({ date: -1 }): the ids, newest first
RECURSIVE NewestFirst(_)
NewestFirst(ps) ==
  IF ps = {} THEN <<>>
  ELSE LET newest == CHOOSE p \in ps : \A q \in ps : p >= q
       IN <<newest>> \o NewestFirst(ps \ {newest})

ListedPurchases(userId) ==
  LET sorted == NewestFirst({p \in DOMAIN purchases : purchases[p].userId = userId})
  IN [i \in 1..Len(sorted) |-> purchases[sorted[i]]]

(* GET /api/purchases/:userId *)
ListPurchases(r) ==
  /\ Free(r)
  /\ \/ /\ req' = [req EXCEPT ![r] = [op |-> "purchases", pc |-> "done", err |-> "none"]]
        /\ res' = [res EXCEPT ![r] = [status |-> 200, list |-> ListedPurchases(1)]]
        /\ UNCHANGED faults
     \/ /\ CanFault
        /\ faults' = faults + 1
        /\ req' = [req EXCEPT ![r] = [op |-> "purchases", pc |-> "done", err |-> "fault"]]
        /\ res' = [res EXCEPT ![r] = Fail(500)]
  /\ UNCHANGED <<store, boot>>

FindByIdAndUpsert(t, quantity) ==
  [x \in DOMAIN tickets \cup {t} |->
     IF x # t THEN tickets[x]
     ELSE IF t \in DOMAIN tickets THEN IncTicket(tickets[t], quantity)
     ELSE [facilityId |-> 1, type |-> "Adult", price |-> 0, description |-> "",
           available |-> -quantity, sold |-> quantity, createdAt |-> t]]

\* Ticket.findByIdAndUpdate(ticketId, { $inc }): the tickets collection after
\* it; an id that matches no document updates nothing and is no error
FindByIdAndUpdate(t, quantity) ==
  [x \in DOMAIN tickets |->
     IF x = t THEN IncTicket(tickets[x], quantity) ELSE tickets[x]]

(* POST /api/purchases: new Purchase(req.body), purchase.save() *)
PurchaseSave(r) ==
  /\ Free(r)
  /\ \E ticketId \in TicketTargets, quantity \in Quantities, price \in Prices,
        total \in Totals :
       LET doc == [userId |-> 1, ticketId |-> ticketId, facilityName |-> "Coaster",
                   type |-> "Adult", price |-> price, quantity |-> quantity,
                   total |-> total]
           rq == [op |-> "purchase", pc |-> "inc", body |-> doc,
                  id |-> NextPurchaseId, err |-> "none"]
       IN \/ /\ purchases' = purchases @@ (NextPurchaseId :> doc)
             /\ req' = [req EXCEPT ![r] = rq]
             /\ res' = [res EXCEPT ![r] = NoRes]
             /\ UNCHANGED faults
          \/ /\ CanFault
             /\ faults' = faults + 1
             /\ req' = [req EXCEPT ![r] = [rq EXCEPT !.pc = "done", !.id = 0,
                                                    !.err = "fault"]]
             /\ res' = [res EXCEPT ![r] = Fail(400)]
             /\ UNCHANGED purchases
  /\ UNCHANGED <<users, facilities, tickets, ids, boot>>

(* POST /api/purchases: Ticket.findByIdAndUpdate(ticketId, { $inc }), res 201 *)
PurchaseInc(r) ==
  /\ req[r].op = "purchase" /\ req[r].pc = "inc"
  /\ LET t == req[r].body.ticketId
     IN \/ /\ tickets' = FindByIdAndUpdate(t, req[r].body.quantity)
           /\ req' = [req EXCEPT ![r].pc = "done"]
           /\ res' = [res EXCEPT ![r] =
                        [status |-> 201, purchase |-> purchases[req[r].id],
                         id |-> req[r].id]]
           /\ UNCHANGED faults
        \/ /\ CanFault
           /\ faults' = faults + 1
           /\ req' = [req EXCEPT ![r].pc = "done", ![r].err = "fault"]
           /\ res' = [res EXCEPT ![r] = Fail(400)]
           /\ UNCHANGED tickets
  /\ UNCHANGED <<users, facilities, purchases, ids, boot>>

(* --------------------------- specifications --------------------------- *)
\* the process has just started against an empty store
Init ==
  /\ users = <<>>
  /\ facilities = <<>>
  /\ tickets = <<>>
  /\ purchases = <<>>
  /\ ids = [facility |-> 0, ticket |-> 0]
  /\ req = [r \in Requests |-> Idle]
  /\ res = [r \in Requests |-> NoRes]
  /\ boot = [pc |-> "start", runs |-> 1, out |-> "none"]
  /\ faults = 0

\* createSampleFacilities on an empty store
SeededFacilities ==
  [f \in 1..Len(SampleFacilities) |->
     [name |-> SampleFacilities[f].name, description |-> "d",
      image |-> "", category |-> SampleFacilities[f].category,
      createdAt |-> f]]

\* createSampleTickets on an empty store: two tickets for each facility
SeededTickets ==
  [t \in 1..NSampleTickets |->
     LET f == ((t - 1) \div Len(SampleTickets)) + 1
         k == ((t - 1) % Len(SampleTickets)) + 1
     IN [facilityId |-> f, type |-> SampleTickets[k].type,
         price |-> SampleTickets[k].price, description |-> "",
         available |-> SampleTickets[k].available,
         sold |-> SampleTickets[k].sold, createdAt |-> t]]

\* initializeData has run to its end against an empty store: the
\* administrator, the sample facilities and two sample tickets for each
InitSeeded ==
  /\ users = (1 :> [name |-> AdminName, email |-> AdminEmail,
                    password |-> Hash(AdminPassword, 1), role |-> "admin",
                    createdAt |-> 1])
  /\ facilities = SeededFacilities
  /\ tickets = SeededTickets
  /\ purchases = <<>>
  /\ ids = [facility |-> Len(SampleFacilities), ticket |-> NSampleTickets]
  /\ req = [r \in Requests |-> Idle]
  /\ res = [r \in Requests |-> NoRes]
  /\ boot = [pc |-> "done", runs |-> 1, out |-> "created"]
  /\ faults = 0

\* initializeData has run to its end against an empty store, and the store
\* rejected createAdminUser's operation: the error was logged, no account
\* was created, the sample facilities and tickets were
InitSeededNoAdmin ==
  /\ users = <<>>
  /\ facilities = SeededFacilities
  /\ tickets = SeededTickets
  /\ purchases = <<>>
  /\ ids = [facility |-> Len(SampleFacilities), ticket |-> NSampleTickets]
  /\ req = [r \in Requests |-> Idle]
  /\ res = [r \in Requests |-> NoRes]
  /\ boot = [pc |-> "done", runs |-> 1, out |-> "error"]
  /\ faults = 0

AccountStep(r) ==
  \/ SignupFindOne(r)
  \/ SignupSave(r)
  \/ Login(r)
  \/ ListUsers(r)

BootStep ==
  \/ BootFindOne
  \/ BootSave
  \/ BootAgain

PurchaseStep(r) ==
  \/ PurchaseSave(r)
  \/ PurchaseInc(r)

ShopStep(r) ==
  \/ ListFacilities(r)
  \/ CreateFacility(r)
  \/ DeleteFacilityFind(r)
  \/ DeleteFacilityTickets(r)
  \/ DeleteFacilityRemove(r)
  \/ ListTickets(r)
  \/ CreateTicketFind(r)
  \/ CreateTicketSave(r)
  \/ CreateTicketPopulate(r)
  \/ UpdateTicketFind(r)
  \/ UpdateTicketSave(r)
  \/ UpdateTicketPopulate(r)
  \/ DeleteTicketFind(r)
  \/ DeleteTicketRemove(r)
  \/ ListPurchases(r)
  \/ PurchaseStep(r)

\* no other request is in flight: requests are served one after another
Alone(r) == \A o \in Requests \ {r} : req[o].pc \in {"idle", "done"}

NextAccounts == (\E r \in Requests : AccountStep(r)) \/ BootStep
NextShop == \E r \in Requests : ShopStep(r)
NextShopSeq == \E r \in Requests : Alone(r) /\ ShopStep(r)
NextPurchases == \E r \in Requests : PurchaseStep(r)
Next == NextAccounts \/ NextShop

\* accounts: signup, login, the user listing and the administrator bootstrap
SpecAccounts == Init /\ [][NextAccounts]_vars

\* facilities, tickets and purchases, requests interleaved
SpecShop == InitSeeded /\ [][NextShop]_vars

\* facilities, tickets and purchases, one request at a time
SpecShopSeq == InitSeeded /\ [][NextShopSeq]_vars

\* concurrent purchases alone
SpecPurchases == InitSeeded /\ [][NextPurchases]_vars

Spec == Init /\ [][Next]_vars

\* the facility, ticket and purchase routes but PUT /api/tickets/:id
NoUpdateStep(r) ==
  \/ ListFacilities(r)
  \/ CreateFacility(r)
  \/ DeleteFacilityFind(r)
  \/ DeleteFacilityTickets(r)
  \/ DeleteFacilityRemove(r)
  \/ ListTickets(r)
  \/ CreateTicketFind(r)
  \/ CreateTicketSave(r)
  \/ CreateTicketPopulate(r)
  \/ DeleteTicketFind(r)
  \/ DeleteTicketRemove(r)
  \/ ListPurchases(r)
  \/ PurchaseStep(r)

NextNoUpdate == \E r \in Requests : NoUpdateStep(r)

\* facilities, tickets and purchases with no ticket update request
SpecNoUpdate == InitSeeded /\ [][NextNoUpdate]_vars

\* every route and the bootstrap, on the seeded store
SpecAll == InitSeededNoAdmin /\ [][Next]_vars

(* ------------------------------- claims ------------------------------- *)
Done(r, op) == req[r].op = op /\ req[r].pc = "done"

\* C4: in every reachable state the accounts collection holds at most one
\* account per email, whatever the interleaving of the signups' findOne and
\* save steps and of the bootstrap's
C4_EmailUnique ==
  \A i \in DOMAIN users, j \in DOMAIN users :
    users[i].email = users[j].email => i = j

\* two signups of one email both passed findOne; the second save was rejected
C4_Witness ==
  \E r \in Requests : Done(r, "signup") /\ req[r].err = "E11000"

\* C5: a signup that creates no account because its email is present answers
\* 400 'User already exists', whether the email was found by findOne or
\* inserted by a concurrent signup before the save
C5_DuplicateIsConflict ==
  \A r \in Requests :
    (Done(r, "signup") /\ req[r].err \in {"exists", "E11000"})
      => res[r] = UserExists

\* C6: a login that fails because the email is unknown and one that fails
\* because the password does not verify get the same response, status 400,
\* and no login step changes the store
C6_LoginFailuresAlike ==
  /\ [](\A r \in Requests :
          (Done(r, "login") /\ req[r].err \in {"nouser", "badpassword"})
            => /\ res[r].status = 400
               /\ \A o \in Requests :
                    (Done(o, "login") /\ req[o].err \in {"nouser", "badpassword"})
                      => res[o] = res[r])
  /\ [][\A r \in Requests :
          (req[r].pc = "idle" /\ req'[r].op = "login") => store' = store]_vars

\* one login failed on an unknown email, another on a wrong password
C6_Witness ==
  \E r \in Requests, o \in Requests :
    /\ Done(r, "login") /\ req[r].err = "nouser"
    /\ Done(o, "login") /\ req[o].err = "badpassword"

ResponseFields(r) == DOMAIN res[r]

\* C7: no response of signup, login or the user listing carries a password
\* field: signup and login return id, name, email and role only, and the
\* listing returns every account without its password
C7_NoPasswordInResponses ==
  /\ [](\A r \in Requests :
          /\ "password" \notin ResponseFields(r)
          /\ "user" \in ResponseFields(r)
               => DOMAIN res[r].user = {"id", "name", "email", "role"}
          /\ "users" \in ResponseFields(r)
               => \A i \in 1..Len(res[r].users) :
                    "password" \notin DOMAIN res[r].users[i])
  /\ [][\A r \in Requests :
          (req[r].pc = "idle" /\ req'[r].op = "users" /\ res'[r].status = 200)
            => {res'[r].users[i].id : i \in 1..Len(res'[r].users)} = DOMAIN users]_vars

\* the listing returned an account, and a signup and a login returned theirs
C7_Witness ==
  \E r \in Requests, o \in Requests :
    /\ Done(r, "users") /\ res[r].status = 200 /\ Len(res[r].users) >= 1
    /\ req[o].op \in {"signup", "login"} /\ "user" \in ResponseFields(o)

\* C8: a bootstrap run that ends without an error leaves exactly one account
\* with the administrator email, and no bootstrap step changes the accounts
\* when such an account exists already: a second run keeps the password hash
C8_BootstrapIdempotent ==
  /\ []((boot.pc = "done" /\ boot.out \in {"exists", "created"})
          => Cardinality(UsersByEmail(AdminEmail)) = 1)
  /\ [][(boot' # boot /\ UsersByEmail(AdminEmail) # {}) => users' = users]_vars

\* the second run has ended, having found the account of the first
C8_Witness ==
  /\ boot.runs = 2 /\ boot.pc = "done" /\ boot.out = "exists"
  /\ Cardinality(UsersByEmail(AdminEmail)) = 1

Arrives(r, op) == req[r].pc = "idle" /\ req'[r].op = op

At(r, op, pc) == req[r].op = op /\ req[r].pc = pc

\* request r takes the step of handler op that starts at pc
Steps(r, op, pc) == At(r, op, pc) /\ req'[r] # req[r]

\* C1: a purchase that succeeds inserts exactly one Purchase record, which
\* carries the submitted fields, and then moves the quantity from available
\* to sold on the ticket it names: available = a - q, sold = s + q
C1_PurchaseEffect ==
  [][\A r \in Requests :
       /\ (Arrives(r, "purchase") /\ req'[r].pc = "inc")
            => /\ req'[r].id \notin DOMAIN purchases
               /\ DOMAIN purchases' = DOMAIN purchases \cup {req'[r].id}
               /\ purchases'[req'[r].id] = req'[r].body
               /\ \A p \in DOMAIN purchases : purchases'[p] = purchases[p]
               /\ tickets' = tickets
       /\ (Steps(r, "purchase", "inc") /\ res'[r].status = 201
             /\ req[r].body.ticketId \in DOMAIN tickets)
            => LET t == req[r].body.ticketId
                   q == req[r].body.quantity
               IN /\ tickets'[t].available = tickets[t].available - q
                  /\ tickets'[t].sold = tickets[t].sold + q
                  /\ purchases' = purchases
                  /\ res'[r].purchase = req[r].body]_vars

\* a purchase of 2 on ticket 1 has succeeded: 150/35 became 148/37
C1_Witness ==
  \E r \in Requests :
    /\ Done(r, "purchase") /\ res[r].status = 201
    /\ req[r].body.ticketId = 1 /\ req[r].body.quantity = 2
    /\ tickets[1].available = 148 /\ tickets[1].sold = 37

RECURSIVE SumQuantity(_)
SumQuantity(ps) ==
  IF ps = {} THEN 0
  ELSE LET p == CHOOSE x \in ps : TRUE
       IN purchases[p].quantity + SumQuantity(ps \ {p})

Bought(t) == SumQuantity({p \in DOMAIN purchases : purchases[p].ticketId = t})

AllSucceeded ==
  \A r \in Requests : req[r].pc = "idle" \/ (Done(r, "purchase") /\ res[r].status = 201)

\* C2: once concurrent purchases have all succeeded, however their steps
\* interleaved, each ticket's available is its initial value less the sum
\* of the quantities bought and its sold the initial value plus that sum
C2_NoLostUpdate ==
  AllSucceeded =>
    \A t \in DOMAIN tickets :
      LET k == ((t - 1) % Len(SampleTickets)) + 1
      IN /\ tickets[t].available = SampleTickets[k].available - Bought(t)
         /\ tickets[t].sold = SampleTickets[k].sold + Bought(t)

\* two purchases of ticket 1, of 1 and of 2, have both succeeded
C2_Witness ==
  /\ \A r \in Requests : Done(r, "purchase") /\ res[r].status = 201
  /\ \E r \in Requests, o \in Requests :
       /\ req[r].body.ticketId = 1 /\ req[r].body.quantity = 1
       /\ req[o].body.ticketId = 1 /\ req[o].body.quantity = 2

\* C3: available is never negative
C3_AvailableNonNegative ==
  \A t \in DOMAIN tickets : tickets[t].available >= 0

ListedIds(list) == {list[i].id : i \in 1..Len(list)}

\* C9: a created facility is in the facility list; a facility delete that
\* succeeds leaves neither the facility nor a ticket of it, and changes no
\* other facility and no ticket of another facility; a delete of an id that
\* resolves to no facility answers 404 and changes nothing
C9_FacilityRoundTrip ==
  [][\A r \in Requests :
       /\ (Arrives(r, "createFacility") /\ res'[r].status = 201)
            => /\ res'[r].id \in ListedIds(ListedFacilities')
               /\ \A f \in DOMAIN facilities : facilities'[f] = facilities[f]
       /\ (Arrives(r, "facilities") /\ res'[r].status = 200)
            => ListedIds(res'[r].list) = DOMAIN facilities
       /\ (Arrives(r, "deleteFacility") /\ req'[r].err # "fault")
            => /\ store' = store
               /\ req'[r].id \notin DOMAIN facilities
                    <=> res'[r] = NotFound("Facility not found")
       /\ (Steps(r, "deleteFacility", "deleteMany") /\ req'[r].err # "fault")
            => /\ facilities' = facilities
               /\ \A t \in DOMAIN tickets :
                    tickets[t].facilityId # req[r].id
                      => t \in DOMAIN tickets' /\ tickets'[t] = tickets[t]
       /\ Steps(r, "deleteFacility", "delete")
            => /\ tickets' = tickets
               /\ \A f \in DOMAIN facilities \ {req[r].id} :
                    f \in DOMAIN facilities' /\ facilities'[f] = facilities[f]
       /\ (Steps(r, "deleteFacility", "delete") /\ res'[r].status = 200)
            => /\ req[r].id \notin ListedIds(ListedFacilities')
               /\ \A t \in DOMAIN tickets' : tickets'[t].facilityId # req[r].id]_vars

\* C10: a ticket creation whose facilityId resolves to no facility answers
\* 404 at once and inserts no ticket
C10_CreateTicketNotFound ==
  /\ [][\A r \in Requests :
          (Arrives(r, "createTicket") /\ req'[r].facilityId \notin DOMAIN facilities
             /\ req'[r].err # "fault")
            => /\ res'[r] = NotFound("Facility not found")
               /\ req'[r].pc = "done"
               /\ tickets' = tickets /\ ids' = ids]_vars
  /\ [](\A r \in Requests :
          (Done(r, "createTicket") /\ res[r].status = 404) => req[r].id = 0)

\* a ticket creation for facility 3, which does not exist, was answered 404
C10_Witness ==
  \E r \in Requests :
    /\ Done(r, "createTicket") /\ res[r].status = 404
    /\ req[r].facilityId \notin DOMAIN facilities
    /\ DOMAIN tickets = 1..NSampleTickets


\* C11: the save step of a ticket update sets every field the request
\* supplies with a value to that value and keeps every other field of the
\* stored ticket; an update of an id that resolves to no ticket answers 404
\* and changes no ticket
C11_PartialUpdate ==
  [][\A r \in Requests :
       /\ (Steps(r, "updateTicket", "save") /\ req'[r].pc = "populate"
             /\ req[r].id \in DOMAIN tickets)
            => LET id == req[r].id
                   vals == req[r].body.vals
               IN /\ DOMAIN tickets' = DOMAIN tickets
                  /\ \A t \in DOMAIN tickets \ {id} : tickets'[t] = tickets[t]
                  /\ \A f \in DOMAIN tickets[id] :
                       tickets'[id][f] = IF f \in DOMAIN vals THEN vals[f]
                                         ELSE tickets[id][f]
       /\ (Arrives(r, "updateTicket") /\ req'[r].err # "fault")
            => /\ store' = store
               /\ req'[r].id \notin DOMAIN tickets
                    <=> res'[r] = NotFound("Ticket not found")]_vars


\* C12: a ticket delete removes the ticket it names and nothing else: every
\* other ticket, every facility, account and purchase is unchanged; a delete
\* of an id that resolves to no ticket answers 404 and changes nothing
C12_TicketDeleteFrame ==
  [][\A r \in Requests :
       /\ (Arrives(r, "deleteTicket") /\ req'[r].err # "fault")
            => /\ store' = store
               /\ req'[r].id \notin DOMAIN tickets
                    <=> res'[r] = NotFound("Ticket not found")
       /\ Steps(r, "deleteTicket", "delete")
            => /\ <<users, facilities, purchases>>' = <<users, facilities, purchases>>
               /\ DOMAIN tickets' \subseteq DOMAIN tickets
               /\ \A t \in DOMAIN tickets \ {req[r].id} :
                    t \in DOMAIN tickets' /\ tickets'[t] = tickets[t]
       /\ (Steps(r, "deleteTicket", "delete") /\ res'[r].status = 200)
            => req[r].id \notin DOMAIN tickets']_vars

\* ticket 1 was deleted with answer 200; tickets 2 to 4 are still stored
C12_Witness ==
  \E r \in Requests :
    /\ Done(r, "deleteTicket") /\ res[r].status = 200 /\ req[r].id = 1
    /\ DOMAIN tickets = 2..NSampleTickets


\* C13: no step updates or removes a stored Purchase or Account: a record
\* present before a step is present with the same fields after it; Purchase
\* records are inserted only by the save step of a purchase request, and
\* Account records only by the save step of a signup or of the bootstrap
C13_RecordsImmutable ==
  [][/\ \A p \in DOMAIN purchases :
          p \in DOMAIN purchases' /\ purchases'[p] = purchases[p]
     /\ \A u \in DOMAIN users :
          u \in DOMAIN users' /\ users'[u] = users[u]
     /\ purchases' # purchases
          => \E r \in Requests : Arrives(r, "purchase") /\ req'[r].pc = "inc"
     /\ users' # users
          => \/ \E r \in Requests : Steps(r, "signup", "save")
             \/ boot.pc = "save" /\ boot'.pc = "done"]_vars

\* a purchase of ticket 1 was stored, then facility 1 was deleted with its
\* tickets: the purchase and the administrator account are still stored
C13_Witness ==
  \E r \in Requests, o \in Requests :
    /\ Done(r, "purchase") /\ res[r].status = 201 /\ req[r].body.ticketId = 1
    /\ Done(o, "deleteFacility") /\ res[o].status = 200 /\ req[o].id = 1
    /\ 1 \notin DOMAIN tickets
    /\ req[r].id \in DOMAIN purchases /\ purchases[req[r].id] = req[r].body
    /\ UsersByEmail(AdminEmail) # {}


\* C14: in every reachable state every ticket's facilityId resolves to a
\* stored facility
C14_NoDanglingTicket ==
  \A t \in DOMAIN tickets : tickets[t].facilityId \in DOMAIN facilities


\* C15: in a purchase request the Purchase is inserted before the counters
\* are adjusted.  The insertion step never changes a ticket; if it is
\* rejected nothing is stored and the answer is 400.  The adjustment runs
\* only with the Purchase stored; if it is rejected the Purchase stays, the
\* counters are unchanged and the answer is 400.  A rejected request never
\* answers 201
C15_SaveThenInc ==
  /\ [](\A r \in Requests :
          /\ At(r, "purchase", "inc")
               => /\ req[r].id \in DOMAIN purchases
                  /\ purchases[req[r].id] = req[r].body
          /\ (req[r].op = "purchase" /\ req[r].err = "fault")
               => req[r].pc = "done" /\ res[r].status = 400)
  /\ [][\A r \in Requests :
          /\ Arrives(r, "purchase")
               => /\ tickets' = tickets
                  /\ req'[r].err = "fault" => purchases' = purchases
          /\ Steps(r, "purchase", "inc")
               => /\ purchases' = purchases
                  /\ req'[r].err = "fault" => tickets' = tickets
                  /\ req'[r].err # "fault" => res'[r].status = 201]_vars

\* the adjustment of a purchase of 2 on ticket 1 was rejected: the Purchase
\* is stored, ticket 1 is still at 150/35, the answer is 400
C15_Witness ==
  \E r \in Requests :
    /\ Done(r, "purchase") /\ req[r].err = "fault" /\ res[r].status = 400
    /\ req[r].id \in DOMAIN purchases
    /\ purchases[req[r].id].ticketId = 1 /\ purchases[req[r].id].quantity = 2
    /\ tickets[1].available = 150 /\ tickets[1].sold = 35


\* C16: every stored Purchase has quantity > 0, and no step of a purchase
\* request with quantity <= 0 changes the purchases or a ticket
C16_QuantityPositive ==
  /\ [](\A p \in DOMAIN purchases : purchases[p].quantity > 0)
  /\ [][\A r \in Requests :
          /\ (Arrives(r, "purchase") /\ req'[r].body.quantity <= 0)
               => purchases' = purchases
          /\ (Steps(r, "purchase", "inc") /\ req[r].body.quantity <= 0)
               => tickets' = tickets]_vars

\* C17: every stored Purchase has total = price * quantity
C17_TotalIsPriceTimesQuantity ==
  \A p \in DOMAIN purchases :
    purchases[p].total = purchases[p].price * purchases[p].quantity


Admins == {u \in DOMAIN users : users[u].role = "admin"}

\* C18: signup answers with role admin exactly when the email is the
\* reserved administrator address; in every reachable state an account has
\* role admin exactly when it carries the reserved email, and there is at
\* most one such account; once a bootstrap run has ended without a rejected
\* store operation there is exactly one
C18_AdminRole ==
  /\ [](/\ \A u \in DOMAIN users :
             users[u].role = "admin" <=> users[u].email = AdminEmail
        /\ Cardinality(Admins) <= 1
        /\ (boot.pc = "done" /\ (boot.out \in {"exists", "created"} \/ faults = 0))
             => Cardinality(Admins) = 1)
  /\ [][\A r \in Requests :
          (Steps(r, "signup", "save") /\ res'[r].status = 201)
            => /\ res'[r].user.role = "admin" <=> req[r].email = AdminEmail
               /\ users'[res'[r].user.id].role = res'[r].user.role]_vars

\* a signup with the reserved email was given role admin, a signup with
\* another email role user, and the bootstrap found the administrator
C18_Witness ==
  /\ boot.pc = "done" /\ boot.out = "exists"
  /\ \E r \in Requests, o \in Requests :
       /\ Done(r, "signup") /\ res[r].status = 201 /\ res[r].user.role = "admin"
       /\ Done(o, "signup") /\ res[o].status = 201 /\ res[o].user.role = "user"


\* available + sold of ticket t when it was created: by createSampleTickets,
\* or by the ticket creation request that was assigned the id
CreatedSum(t) ==
  IF t <= NSampleTickets
  THEN LET k == ((t - 1) % Len(SampleTickets)) + 1
       IN SampleTickets[k].available + SampleTickets[k].sold
  ELSE LET r == CHOOSE c \in Requests : req[c].op = "createTicket" /\ req[c].id = t
       IN req[r].available

\* C19: no step of a purchase request changes available + sold of a ticket,
\* and with no ticket update requests every stored ticket has the
\* available + sold it was created with
C19_InventoryConserved ==
  /\ [](\A t \in DOMAIN tickets :
          tickets[t].available + tickets[t].sold = CreatedSum(t))
  /\ [][\A r \in Requests :
          (req'[r] # req[r] /\ req'[r].op = "purchase")
            => \A t \in DOMAIN tickets :
                 /\ t \in DOMAIN tickets'
                 /\ tickets'[t].available + tickets'[t].sold
                      = tickets[t].available + tickets[t].sold]_vars

\* purchases of 1 and of 2 on ticket 1 have both succeeded: 147 + 38 = 185
C19_Witness ==
  /\ \A r \in Requests : Done(r, "purchase") /\ res[r].status = 201
  /\ tickets[1].available = 147 /\ tickets[1].sold = 38


\* C20: a purchase request whose ticketId resolves to no ticket is stored
\* all the same, and its adjustment step, run when no such ticket is
\* stored, changes no ticket and answers 201
C20_PurchaseOfMissingTicket ==
  [][\A r \in Requests :
       /\ (Arrives(r, "purchase") /\ req'[r].err # "fault"
             /\ req'[r].body.ticketId \notin DOMAIN tickets)
            => /\ req'[r].pc = "inc"
               /\ DOMAIN purchases' = DOMAIN purchases \cup {req'[r].id}
               /\ purchases'[req'[r].id] = req'[r].body
               /\ tickets' = tickets
       /\ (Steps(r, "purchase", "inc") /\ req'[r].err # "fault"
             /\ req[r].body.ticketId \notin DOMAIN tickets)
            => /\ res'[r].status = 201
               /\ res'[r].purchase = req[r].body
               /\ tickets' = tickets
               /\ purchases' = purchases]_vars

\* ticket 1 was deleted and a purchase of it was answered 201 and is stored
C20_Witness ==
  \E r \in Requests, o \in Requests :
    /\ Done(o, "deleteTicket") /\ res[o].status = 200 /\ req[o].id = 1
    /\ Done(r, "purchase") /\ res[r].status = 201 /\ req[r].body.ticketId = 1
    /\ 1 \notin DOMAIN tickets
    /\ req[r].id \in DOMAIN purchases /\ purchases[req[r].id].ticketId = 1


\* request r is a completed ticket update of t that supplied neither
\* available nor sold and whose save was applied
UpdatedOther(r, t) ==
  /\ Done(r, "updateTicket") /\ req[r].id = t
  /\ req[r].err \in {"none", "TypeError"}
  /\ DOMAIN req[r].body.vals \cap {"available", "sold"} = {}

PurchasedOk(r, t) ==
  Done(r, "purchase") /\ res[r].status = 201 /\ req[r].body.ticketId = t

\* C21: the save step of a ticket update that supplies neither available nor
\* sold leaves both counters as the store holds them; so once such updates
\* and purchases of one seeded ticket have all completed, in whatever order
\* their steps ran, the ticket has available = a - q and sold = s + q for
\* the quantities q bought, and the fields of a single update as supplied
C21_UpdateKeepsPurchase ==
  /\ [](\A t \in 1..NSampleTickets :
          ((\A r \in Requests :
              req[r].pc = "idle" \/ UpdatedOther(r, t) \/ PurchasedOk(r, t))
            /\ t \in DOMAIN tickets)
            => /\ tickets[t].available = SeededTickets[t].available - Bought(t)
               /\ tickets[t].sold = SeededTickets[t].sold + Bought(t)
               /\ \A r \in Requests :
                    (UpdatedOther(r, t)
                       /\ \A o \in Requests \ {r} : ~UpdatedOther(o, t))
                      => \A f \in DOMAIN req[r].body.vals :
                           tickets[t][f] = req[r].body.vals[f])
  /\ [][\A r \in Requests :
          (Steps(r, "updateTicket", "save") /\ req'[r].pc = "populate"
             /\ req[r].id \in DOMAIN tickets
             /\ DOMAIN req[r].body.vals \cap {"available", "sold"} = {})
            => /\ tickets'[req[r].id].available = tickets[req[r].id].available
               /\ tickets'[req[r].id].sold = tickets[req[r].id].sold]_vars

\* an update of ticket 1 to price 60 and a purchase of 2 of ticket 1 have
\* both completed: the ticket is at 148/37 with price 60
C21_Witness ==
  \E r \in Requests, o \in Requests :
    /\ UpdatedOther(r, 1) /\ res[r].status = 200
    /\ req[r].body.vals = [price |-> 60]
    /\ PurchasedOk(o, 1) /\ req[o].body.quantity = 2
    /\ tickets[1].available = 148 /\ tickets[1].sold = 37
    /\ tickets[1].price = 60

=============================================================================
